---- MODULE Spec2Model ----
(***************************************************************************)
(* A model of youtube_dl/extractor/drtv.py: DRTVIE._real_extract, the      *)
(* resolution of a DR programcard into a format list (lines 189-325), and  *)
(* its nested helper decrypt_uri (lines 207-219); DRTVLiveIE._real_extract  *)
(* (lines 347-403); and of youtube_dl/extractor/tf1.py:                    *)
(* WatIE._extract_video_info (lines 62-107) and TF1IE._real_extract with   *)
(* _old_real_extract (lines 213-257).                                      *)
(*                                                                         *)
(* Python values.  A str is a sequence of one-character strings; None      *)
(* where a str is expected is NoneStr.  An optional number is <<>> (None)  *)
(* or <<n>>.  Enumerated JSON strings (Kind, Target, Language, ...) are    *)
(* TLA+ strings, with "None" for an absent value.                          *)
(***************************************************************************)
EXTENDS Integers, Sequences, FiniteSets, TLC

VARIABLES
    assets,                 \* lines 197-205 (references into AssetTable)
    ai,                     \* position of `for asset in assets` (1-based)
    li,                     \* position of `for link in asset.get('Links', [])`
    pc,                     \* "asset" (line 221) | "link" (229) | "subs" (278) | "done" | "idle"
    thumbnail,              \* line 189
    duration,               \* line 190
    restricted_to_denmark,  \* line 192
    formats,                \* line 194
    subtitles,              \* line 195
    warnings,               \* what report_warning received, in order
    outcome,                \* "running" | "ok" | "GeoRestricted" | "NoFormats" | "UncaughtError"
    visited,                \* history: the links the loop body was entered for
    dispatched,             \* history: `formats` as it stood at line 295
    token,                  \* decrypt_uri's argument (SpecDecrypt)
    decrypted,              \* decrypt_uri's result (SpecDecrypt)
    channel_data,           \* DRTVLiveIE: channel_data['StreamingServers'] (line 349)
    forbidden,              \* DRTVLiveIE: line 355
    sk,                     \* DRTVLiveIE: position of the loops of lines 356-363
    tried,                  \* history: what each turn of those loops came to
    webpage,                \* TF1IE: what the page holds (line 223)
    program_id,             \* TF1IE: lines 227-236
    video_data,             \* WatIE/TF1IE: the answer of _call_api
    calls                   \* history: the collaborators called, in order

vars == <<assets, ai, li, pc, thumbnail, duration, restricted_to_denmark,
          formats, subtitles, warnings, outcome, visited, dispatched,
          token, decrypted, channel_data, forbidden, sk, tried,
          webpage, program_id, video_data, calls>>

liveVars == <<channel_data, forbidden, sk, tried>>

\* the locals of DRTVIE._real_extract that the other extractors do not have
drtvOnlyVars == <<assets, ai, li, thumbnail, duration, restricted_to_denmark,
                  subtitles, visited, dispatched, token, decrypted>>

tf1Vars == <<webpage, program_id, video_data, calls>>

extractVars == <<assets, ai, li, pc, thumbnail, duration,
                 restricted_to_denmark, formats, subtitles, warnings, outcome,
                 visited, dispatched>>

decryptVars == <<token, decrypted>>

----------------------------------------------------------------------------
(* Bounds of the model. *)

\* how many entries SecondaryAssets holds at most
MaxSecondary == 1

\* how many formats one manifest yields at most
MaxManifest == 2

\* how many formats the manifests of one resolution yield together at most
MaxFormats == 4

\* length of the short plaintexts decrypt_uri is tried on
MaxPlain == 3

----------------------------------------------------------------------------
(* Python helpers. *)

NoneStr == <<"None">>

\* Python truthiness of an optional str: None and '' are falsy
Truthy(s) == s # NoneStr /\ s # <<>>

Min(a, b) == IF a < b THEN a ELSE b

\* s[a:b] for 0 <= a, 0 <= b (Python clamps both ends)
Slice(s, a, b) == SubSeq(s, a + 1, Min(b, Len(s)))

RECURSIVE Flatten(_)
Flatten(ss) == IF ss = <<>> THEN <<>> ELSE Head(ss) \o Flatten(Tail(ss))

Range(s) == {s[i] : i \in 1..Len(s)}

\* all sequences over S of length at most n
SeqsUpTo(S, n) == UNION {[1..k -> S] : k \in 0..n}

----------------------------------------------------------------------------
(* decrypt_uri, lines 207-219. *)

HexDigits == <<"0", "1", "2", "3", "4", "5", "6", "7",
               "8", "9", "a", "b", "c", "d", "e", "f">>

IsHex(c) == \E i \in 1..16 : HexDigits[i] = c

HexVal(c) == (CHOOSE i \in 1..16 : HexDigits[i] = c) - 1

AllHex(s) == \A i \in 1..Len(s) : IsHex(s[i])

RECURSIVE HexNumber(_)
HexNumber(s) ==
    IF s = <<>> THEN 0
    ELSE 16 * HexNumber(SubSeq(s, 1, Len(s) - 1)) + HexVal(s[Len(s)])

\* int(s, 16): ValueError on '' and on a character that is no hex digit
int16(s) ==
    IF s # <<>> /\ AllHex(s) THEN [ok |-> TRUE, val |-> HexNumber(s)]
    ELSE [ok |-> FALSE, val |-> 0]

\* hex_to_bytes, line 207-208: binascii.a2b_hex raises on an odd length and on
\* a character that is no hex digit
hex_to_bytes(hex) ==
    IF Len(hex) % 2 = 0 /\ AllHex(hex)
    THEN [ok |-> TRUE,
          val |-> [i \in 1..(Len(hex) \div 2) |->
                      16 * HexVal(hex[2 * i - 1]) + HexVal(hex[2 * i])]]
    ELSE [ok |-> FALSE, val |-> <<>>]

\* aes.py BLOCK_SIZE_BYTES
BLOCK_SIZE_BYTES == 16

RECURSIVE XorBits(_, _, _)
XorBits(a, b, n) ==
    IF n = 0 THEN 0
    ELSE (((a % 2) + (b % 2)) % 2) + 2 * XorBits(a \div 2, b \div 2, n - 1)

\* aes.py xor: zip() stops at the shorter operand
xor(d1, d2) == [j \in 1..Min(Len(d1), Len(d2)) |-> XorBits(d1[j], d2[j], 8)]

\* the static shared secret of line 215, folded to a number
SecretSum == (115 + 82 + 66 + 122 + 89 + 78 + 88 + 66 + 122 + 107 + 75 + 103) % 256

RECURSIVE TextSum(_)
TextSum(s) ==
    IF s = <<>> THEN 0
    ELSE (3 * TextSum(Tail(s)) + (IF IsHex(Head(s)) THEN HexVal(Head(s)) ELSE 99)) % 256

\* hashlib.sha256(('%s:<secret>' % a).encode('utf-8')).digest(), lines 214-215:
\* a stand-in digest of 32 bytes that depends on the IV text and the secret
sha256_key(a) == [i \in 1..32 |-> (TextSum(a) * 31 + i * 17 + SecretSum) % 256]

\* the block cipher under aes_cbc_decrypt: a stand-in keyed permutation of a block
aes_decrypt(block, key) == [j \in 1..Len(block) |-> (block[j] - key[j] + 256) % 256]

aes_encrypt(block, key) == [j \in 1..Len(block) |-> (block[j] + key[j]) % 256]

CipherBlock(d, i) ==
    LET raw == SubSeq(d, (i - 1) * BLOCK_SIZE_BYTES + 1, Min(i * BLOCK_SIZE_BYTES, Len(d)))
    IN  raw \o [j \in 1..(BLOCK_SIZE_BYTES - Len(raw)) |-> 0]

\* aes.py aes_cbc_decrypt(data, key, iv): CBC over ceil(len/16) zero-padded
\* blocks, the result cut to len(data)
aes_cbc_decrypt(d, key, iv) ==
    LET count == (Len(d) + BLOCK_SIZE_BYTES - 1) \div BLOCK_SIZE_BYTES
        out == [i \in 1..count |->
                   xor(aes_decrypt(CipherBlock(d, i), key),
                       IF i = 1 THEN iv ELSE CipherBlock(d, i - 1))]
    IN  SubSeq(Flatten(out), 1, Len(d))

\* the slice had it kept one byte of the padding
StripPaddingOffByOne(dec) ==
    LET p == dec[Len(dec)]
    IN  IF p = 0 \/ p > Len(dec) THEN <<>> ELSE SubSeq(dec, 1, Len(dec) - p + 1)

\* decrypted[:-decrypted[-1]], line 219: Python clamps a slice, so a count
\* beyond the length, and a count of 0 (the slice [:-0] is [:0]), give []
StripPadding(dec) ==
    LET p == dec[Len(dec)]
    IN  IF p = 0 \/ p >= Len(dec) THEN <<>> ELSE SubSeq(dec, 1, Len(dec) - p)

\* the characters the model writes plaintexts in, with their ASCII codes
Alphabet == <<"/", "v", "?", "s">>

AlphabetCodes == <<47, 118, 63, 115>>

Ord(c) == AlphabetCodes[CHOOSE i \in 1..Len(Alphabet) : Alphabet[i] = c]

Chr(b) ==
    IF \E i \in 1..Len(Alphabet) : AlphabetCodes[i] = b
    THEN Alphabet[CHOOSE i \in 1..Len(Alphabet) : AlphabetCodes[i] = b]
    ELSE ToString(b)

\* bytes.decode('utf-8'), line 219, on ASCII bytes and lone bytes >= 0x80
\* (a lone byte >= 0x80 is no UTF-8: UnicodeDecodeError)
utf8_decode(bs) ==
    IF \A i \in 1..Len(bs) : bs[i] < 128
    THEN [ok |-> TRUE, val |-> [i \in 1..Len(bs) |-> Chr(bs[i])]]
    ELSE [ok |-> FALSE, val |-> <<>>]

\* .split('?')[0], line 219
RECURSIVE SplitQuery(_)
SplitQuery(s) ==
    IF s = <<>> \/ Head(s) = "?" THEN <<>> ELSE <<Head(s)>> \o SplitQuery(Tail(s))

Failed == [ok |-> FALSE, val |-> <<>>]

\* decrypt_uri(e), lines 210-219; ok = FALSE stands for a raised exception
decrypt_uri(e) ==
    LET n == int16(Slice(e, 2, 10))
    IN  IF ~n.ok THEN Failed
        ELSE
        LET a == Slice(e, 10 + n.val, Len(e))
            d == hex_to_bytes(Slice(e, 10, 10 + n.val))
            iv == hex_to_bytes(a)
        IN  IF ~d.ok \/ ~iv.ok THEN Failed
            ELSE
            LET dec == aes_cbc_decrypt(d.val, sha256_key(a), iv.val)
            IN  IF dec = <<>> THEN Failed    \* decrypted[-1]: IndexError
                ELSE
                LET text == utf8_decode(StripPadding(dec))
                IN  IF ~text.ok THEN Failed
                    ELSE [ok |-> TRUE, val |-> SplitQuery(text.val)]

----------------------------------------------------------------------------
(* Tokens: what the provider's encryption produces (the inverse of         *)
(* decrypt_uri's framing), used to draw decrypt_uri's inputs.              *)

ToHex(bs) ==
    Flatten([i \in 1..Len(bs) |->
                <<HexDigits[(bs[i] \div 16) + 1], HexDigits[(bs[i] % 16) + 1]>>])

RECURSIVE HexOfWidth(_, _)
HexOfWidth(n, w) ==
    IF w = 0 THEN <<>> ELSE HexOfWidth(n \div 16, w - 1) \o <<HexDigits[(n % 16) + 1]>>

\* PKCS#7: 1..16 bytes, each the count of bytes added
Pkcs7(bs) ==
    LET p == BLOCK_SIZE_BYTES - (Len(bs) % BLOCK_SIZE_BYTES)
    IN  bs \o [j \in 1..p |-> p]

RECURSIVE CbcEncrypt(_, _, _)
CbcEncrypt(bs, key, prev) ==
    IF bs = <<>> THEN <<>>
    ELSE LET c == aes_encrypt(xor(SubSeq(bs, 1, BLOCK_SIZE_BYTES), prev), key)
         IN  c \o CbcEncrypt(SubSeq(bs, BLOCK_SIZE_BYTES + 1, Len(bs)), key, c)

\* tag, 8-hex-digit length, ciphertext hex, IV hex
MakeToken(padded, ivBytes) ==
    LET ivHex == ToHex(ivBytes)
        cHex == ToHex(CbcEncrypt(padded, sha256_key(ivHex), ivBytes))
    IN  <<"0", "1">> \o HexOfWidth(Len(cHex), 8) \o cHex \o ivHex

Bytes(s) == [i \in 1..Len(s) |-> Ord(s[i])]

IVs == {[j \in 1..BLOCK_SIZE_BYTES |-> j], [j \in 1..BLOCK_SIZE_BYTES |-> (200 + 3 * j) % 256]}

\* plaintexts that fill one block less one byte, one block, one block and a byte
LongPlain(n) == [j \in 1..n |-> IF j = 3 THEN "v" ELSE IF j = n - 1 THEN "?" ELSE "/"]

Plaintexts ==
    SeqsUpTo({"/", "v", "?"}, MaxPlain)
        \cup {LongPlain(BLOCK_SIZE_BYTES - 1), LongPlain(BLOCK_SIZE_BYTES),
              LongPlain(BLOCK_SIZE_BYTES + 1)}

WellFormedTokens ==
    {[kind |-> "wellformed", plain |-> p, text |-> MakeToken(Pkcs7(Bytes(p)), iv)] :
        p \in Plaintexts, iv \in IVs}

SamplePlain == <<"/", "/", "v", "?", "s">>

SampleIV == [j \in 1..BLOCK_SIZE_BYTES |-> j]

SampleText == MakeToken(Pkcs7(Bytes(SamplePlain)), SampleIV)

\* the token cut inside its length field
TruncatedTokens ==
    {[kind |-> "truncated", plain |-> SamplePlain, text |-> SubSeq(SampleText, 1, k)] :
        k \in 0..9}

\* one character of the length field, the ciphertext or the IV is no hex digit
NonHexTokens ==
    {[kind |-> "nonhex", plain |-> SamplePlain,
      text |-> [SampleText EXCEPT ![k] = "z"]] : k \in 3..Len(SampleText)}

\* one block whose last byte, the declared padding count, exceeds the 16
\* decrypted bytes
OverPadTokens ==
    {[kind |-> "overpad", plain |-> p,
      text |-> MakeToken(Bytes(p) \o [j \in 1..(BLOCK_SIZE_BYTES - Len(p)) |-> c], iv)] :
        p \in {<<>>, SamplePlain}, c \in {BLOCK_SIZE_BYTES + 1, 200}, iv \in IVs}

TokenSet == WellFormedTokens \cup TruncatedTokens \cup NonHexTokens \cup OverPadTokens

NoToken == [kind |-> "none", plain |-> <<>>, text |-> <<>>]

NotDecrypted == [done |-> FALSE, ok |-> FALSE, val |-> <<>>]

----------------------------------------------------------------------------
(* The programcard: data['PrimaryAsset'], data['SecondaryAssets'].         *)

UrlHds == <<"/", "/", "h">>

UrlHls == <<"/", "/", "s">>

UrlFile == <<"/", "/", "v">>

UrlImage == <<"/", "/", "i">>

UrlSubs == <<"/", "/", "t">>

UrlPoster == <<"/", "/", "p">>

UrlMpd == <<"/", "/", "d">>

\* a str that is no URL
NotAUrl == <<"v">>

Link(uri, enc, target, bitrate, ext) ==
    [isdict |-> TRUE, Uri |-> uri, EncryptedUri |-> enc, Target |-> target,
     Bitrate |-> bitrate, FileFormat |-> ext]

\* a JSON value that is no object
NotADict == [isdict |-> FALSE]

LinkHds == Link(UrlHds, NoneStr, "HDS", <<>>, "None")

LinkHls == Link(UrlHls, NoneStr, "HLS", <<>>, "None")

LinkFile == Link(UrlFile, NoneStr, "Download", <<750>>, "mp4")

\* a Direct link without Target, Bitrate and FileFormat
LinkBare == Link(UrlFile, NoneStr, "None", <<>>, "None")

LinkEncrypted == Link(NoneStr, SampleText, "HLS", <<>>, "None")

\* EncryptedUri with a character that is no hex digit
LinkEncNonHex == Link(NoneStr, [SampleText EXCEPT ![11] = "z"], "HDS", <<>>, "None")

\* EncryptedUri whose declared padding count exceeds the plaintext
LinkEncOverPad ==
    Link(<<>>, MakeToken(Bytes(SamplePlain)
                       \o [j \in 1..(BLOCK_SIZE_BYTES - Len(SamplePlain)) |-> 200], SampleIV),
         "Download", <<750>>, "mp4")

LinkNoUri == Link(NoneStr, NoneStr, "HLS", <<>>, "None")

LinkBadUri == Link(NotAUrl, NoneStr, "HDS", <<>>, "None")

\* "Uri": "", "EncryptedUri": ""
LinkEmptyUri == Link(<<>>, <<>>, "Download", <<750>>, "mp4")

\* a link that names a DASH manifest
LinkDash == Link(UrlMpd, NoneStr, "DASH", <<>>, "mpd")

\* an encrypted link whose Target is no transport the extractor knows
LinkStreaming == Link(NoneStr, SampleText, "Streaming", <<500>>, "None")

Subs(uri, lang, mime) == [isdict |-> TRUE, Uri |-> uri, Language |-> lang, MimeType |-> mime]

NoSubs == [islist |-> FALSE, items |-> <<>>]

SubsList(items) == [islist |-> TRUE, items |-> items]

LinkList(items) == [tag |-> "list", items |-> items]

\* the key 'Links' is absent: asset.get('Links', []) is []
LinksMissing == [tag |-> "missing", items |-> <<>>]

\* "Links": null
LinksNull == [tag |-> "null", items |-> <<>>]

Asset(kind, uri, ms, restricted, target, links, subs) ==
    [isdict |-> TRUE, Kind |-> kind, Uri |-> uri, DurationInMilliseconds |-> ms,
     RestrictedToDenmark |-> restricted, Target |-> target, Links |-> links,
     SubtitlesList |-> subs]

\* the JSON objects an asset entry can be; an entry of the programcard is a
\* reference to one of them (its position here), or 0: a value that is no object
AssetTable ==
    << Asset("VideoResource", NoneStr, <<2000>>, FALSE, "Default",
            LinkList(<<LinkHds, LinkHls>>),
            SubsList(<<Subs(UrlSubs, "Danish", "text/vtt")>>)),
      Asset("VideoResource", NoneStr, <<1000>>, TRUE, "SignLanguage",
            LinkList(<<LinkHls, LinkFile>>), NoSubs),
      Asset("AudioResource", NoneStr, <<>>, FALSE, "None",
            LinkList(<<LinkFile, LinkHds>>),
            SubsList(<<Subs(UrlSubs, "None", "application/ttml+xml"), NotADict,
                       Subs(NotAUrl, "Danish", "None")>>)),
      Asset("VideoResource", NoneStr, <<1000>>, TRUE, "Default", LinkList(<<>>), NoSubs),
      Asset("VideoResource", NoneStr, <<2000>>, FALSE, "Default",
            LinkList(<<LinkEncNonHex, LinkHls>>), NoSubs),
      Asset("VideoResource", NoneStr, <<1000>>, TRUE, "None",
            LinkList(<<LinkEncrypted, LinkEncOverPad>>), NoSubs),
      Asset("Image", UrlImage, <<>>, TRUE, "None", LinksMissing, NoSubs),
      Asset("Image", NotAUrl, <<>>, FALSE, "None", LinksMissing,
            SubsList(<<Subs(UrlSubs, "German", "application/ttml+xml")>>)),
      Asset("VideoResource", NoneStr, <<1000>>, FALSE, "Default", LinksNull, NoSubs),
      Asset("VideoResource", NoneStr, <<1000>>, FALSE, "Default",
            LinkList(<<NotADict, LinkFile>>), NoSubs),
      Asset("VideoResource", NoneStr, <<2000>>, TRUE, "None",
            LinkList(<<LinkNoUri, LinkBadUri>>), NoSubs),
      Asset("AudioResource", NoneStr, <<1000>>, FALSE, "SignLanguage",
            LinkList(<<LinkBare, LinkHds>>), NoSubs),
      Asset("VideoResource", NoneStr, <<>>, FALSE, "VisuallyInterpreted", LinksMissing,
            SubsList(<<Subs(UrlSubs, "Danish", "None"), Subs(UrlSubs, "German", "text/vtt")>>)),
      Asset("Other", UrlImage, <<1000>>, TRUE, "Default", LinkList(<<LinkFile>>), NoSubs),
      Asset("AudioResource", NoneStr, <<3000>>, FALSE, "Default",
            LinkList(<<LinkHds, LinkHls>>), NoSubs),
      Asset("Image", UrlPoster, <<>>, FALSE, "None", LinksMissing, NoSubs),
      Asset("VideoResource", NoneStr, <<1000>>, TRUE, "Default",
            LinkList(<<LinkNoUri, LinkFile>>),
            SubsList(<<Subs(UrlSubs, "Danish", "text/vtt")>>)),
      Asset("VideoResource", NoneStr, <<2000>>, FALSE, "None",
            LinkList(<<LinkDash, LinkEmptyUri, LinkStreaming>>), NoSubs) >>

\* the entries the programcards of Spec are made of: the first 14 of AssetTable
\* (the others are tried by the specifications further down)
Entries == 0..14

Obj(ref) == IF ref = 0 THEN NotADict ELSE AssetTable[ref]

DataSet ==
    [PrimaryAsset : Entries,
     SecondaryAssets : {[islist |-> FALSE, items |-> <<>>]}
         \cup {[islist |-> TRUE, items |-> s] : s \in SeqsUpTo(Entries, MaxSecondary)}]

IsDict(ref) == Obj(ref).isdict

\* lines 197-205: the entries that are objects, the primary asset first
BuildAssets(d) ==
    (IF IsDict(d.PrimaryAsset) THEN <<d.PrimaryAsset>> ELSE <<>>)
        \o (IF d.SecondaryAssets.islist
            THEN SelectSeq(d.SecondaryAssets.items, IsDict) ELSE <<>>)

----------------------------------------------------------------------------
(* Collaborators of the extractor (utils.py, common.py).                   *)

\* utils.url_or_none: the str when it is a URL (here: scheme-relative), else None
url_or_none(u) ==
    IF u # NoneStr /\ Len(u) >= 2 /\ u[1] = "/" /\ u[2] = "/" THEN u ELSE NoneStr

\* utils.float_or_none(v, scale)
float_or_none(v, scale) == IF v = <<>> THEN <<>> ELSE <<v[1] \div scale>>

\* utils.int_or_none
int_or_none(v) == v

\* utils.mimetype2ext; "None" when the type is unknown or absent
mimetype2ext(mt) ==
    IF mt = "text/vtt" THEN "vtt"
    ELSE IF mt = "application/ttml+xml" THEN "ttml" ELSE "None"

\* what a manifest download can come to: a failure, or 1..MaxManifest formats
\* whose ids extend the id hint ("<id>-<k>"), or one format named by the hint
\* alone (a manifest that is a single media playlist)
ManifestResponses ==
    {[ok |-> FALSE, n |-> 0, suffixed |-> TRUE]}
        \cup {[ok |-> TRUE, n |-> k, suffixed |-> TRUE] : k \in 1..MaxManifest}
        \cup {[ok |-> TRUE, n |-> 1, suffixed |-> FALSE]}

\* the video codec the manifest delegates name in the formats they return
DelegateCodec == "avc1"

\* _extract_f4m_formats / _extract_m3u8_formats: the formats of the manifest,
\* carrying the preference and id hints.  A failed download raises when fatal,
\* and otherwise is reported as a warning and yields []
ManifestFormats(uri, ext, preference, id, r, fatal) ==
    [raised |-> ~r.ok /\ fatal,
     formats |->
        IF ~r.ok THEN <<>>
        ELSE [k \in 1..r.n |->
                 [url |-> uri \o <<ToString(k)>>,
                  format_id |-> IF r.suffixed THEN Append(id, ToString(k)) ELSE id,
                  tbr |-> <<100 * k>>, ext |-> ext, vcodec |-> DelegateCodec,
                  preference |-> preference]]]

\* _check_formats, line 302: keeps the formats the probe finds reachable
\* (keep: their positions), in their order
check_formats(fs, keep) ==
    LET idx == [i \in 1..Len(fs) |-> i]
        kept == SelectSeq(idx, LAMBDA i : i \in keep)
    IN  [k \in 1..Len(kept) |-> fs[kept[k]]]

\* _sort_formats, line 304: fails on an empty list ("no playable source
\* found"); the order the aggregation produced is the final order
sort_formats(fs) == fs

----------------------------------------------------------------------------
(* DRTVIE._real_extract, lines 221-304.                                    *)

MediaKinds == {"VideoResource", "AudioResource"}

AlternateTargets == {"SpokenSubtitles", "SignLanguage", "VisuallyInterpreted"}

\* str.startswith('HLS-') on an id kept as its '-'-separated parts
IsHlsId(id) == Len(id) >= 2 /\ id[1] = "HLS"

\* the URI of a link had lines 241-243 not passed it through url_or_none
ResolveUriUnchecked(link) ==
    IF ~link.isdict THEN [status |-> "error", uri |-> NoneStr]
    ELSE IF Truthy(link.Uri) THEN [status |-> "ok", uri |-> link.Uri]
    ELSE IF ~Truthy(link.EncryptedUri) THEN [status |-> "skip", uri |-> NoneStr]
    ELSE LET d == decrypt_uri(link.EncryptedUri)
         IN  IF ~d.ok THEN [status |-> "warn", uri |-> NoneStr]
             ELSE [status |-> "ok", uri |-> d.val]

\* the URI of a link had lines 235-240 no try/except around decrypt_uri
ResolveUriRaising(link) ==
    IF ~link.isdict THEN [status |-> "error", uri |-> NoneStr]
    ELSE IF Truthy(link.Uri)
    THEN LET u == url_or_none(link.Uri)
         IN  [status |-> IF Truthy(u) THEN "ok" ELSE "skip", uri |-> u]
    ELSE IF ~Truthy(link.EncryptedUri) THEN [status |-> "skip", uri |-> NoneStr]
    ELSE LET d == decrypt_uri(link.EncryptedUri)
             u == IF d.ok THEN url_or_none(d.val) ELSE NoneStr
         IN  IF ~d.ok THEN [status |-> "error", uri |-> NoneStr]
             ELSE [status |-> IF Truthy(u) THEN "ok" ELSE "skip", uri |-> u]

\* lines 230-243: the URI of a link.  status "error": an uncaught exception
\* (link.get on a value that is no object); "skip": continue without a word;
\* "warn": continue after report_warning; "ok": uri is the URL
ResolveUri(link) ==
    IF ~link.isdict THEN [status |-> "error", uri |-> NoneStr]
    ELSE IF Truthy(link.Uri)
    THEN LET u == url_or_none(link.Uri)
         IN  [status |-> IF Truthy(u) THEN "ok" ELSE "skip", uri |-> u]
    ELSE IF ~Truthy(link.EncryptedUri) THEN [status |-> "skip", uri |-> NoneStr]
    ELSE LET d == decrypt_uri(link.EncryptedUri)
             u == IF d.ok THEN url_or_none(d.val) ELSE NoneStr
         IN  IF ~d.ok THEN [status |-> "warn", uri |-> NoneStr]
             ELSE [status |-> IF Truthy(u) THEN "ok" ELSE "skip", uri |-> u]

\* the id had line 248 not appended the asset target
FormatIdNoTarget(link, asset_target) ==
    <<IF link.Target = "None" THEN "" ELSE link.Target>>

\* lines 244-252
FormatId(link, asset_target) ==
    <<IF link.Target = "None" THEN "" ELSE link.Target>>
        \o (IF asset_target \in AlternateTargets THEN <<asset_target>> ELSE <<>>)

\* the hint had lines 249-250 been left out
PreferenceNoDefault(asset_target) ==
    IF asset_target \in AlternateTargets THEN "-1" ELSE "None"

\* lines 246-252
Preference(asset_target) ==
    IF asset_target \in AlternateTargets THEN "-1"
    ELSE IF asset_target = "Default" THEN "1" ELSE "None"

\* the calls had they left fatal at its default
ManifestFatalTrue == TRUE

\* fatal=False, lines 256 and 265
ManifestFatal == FALSE

\* the HDS formats had lines 257-259 been left out
HdsFormatsAsReturned(asset, link, uri, r) ==
    ManifestFormats(uri, "flv", Preference(asset.Target), FormatId(link, asset.Target),
                    r, ManifestFatal)

\* lines 254-259
HdsFormats(asset, link, uri, r) ==
    LET c == ManifestFormats(uri, "flv", Preference(asset.Target),
                             FormatId(link, asset.Target), r, ManifestFatal)
        f4m == c.formats
    IN  [raised |-> c.raised,
         formats |-> IF asset.Kind = "AudioResource"
                     THEN [k \in 1..Len(f4m) |-> [f4m[k] EXCEPT !.vcodec = "none"]]
                     ELSE f4m]

\* lines 262-265
HlsFormats(asset, link, uri, r) ==
    ManifestFormats(uri, "mp4", Preference(asset.Target), FormatId(link, asset.Target),
                    r, ManifestFatal)

\* the Direct format had line 275 left the codec unset for every kind
DirectFormatsCodecUnset(asset, link, uri) ==
    << [url |-> uri,
        format_id |-> FormatId(link, asset.Target)
            \o (IF link.Bitrate # <<>> /\ link.Bitrate # <<0>>
                THEN <<ToString(link.Bitrate[1])>> ELSE <<>>),
        tbr |-> int_or_none(link.Bitrate),
        ext |-> link.FileFormat,
        vcodec |-> "None",
        preference |-> Preference(asset.Target)] >>

\* lines 267-277
DirectFormats(asset, link, uri) ==
    << [url |-> uri,
        format_id |-> FormatId(link, asset.Target)
            \o (IF link.Bitrate # <<>> /\ link.Bitrate # <<0>>
                THEN <<ToString(link.Bitrate[1])>> ELSE <<>>),
        tbr |-> int_or_none(link.Bitrate),
        ext |-> link.FileFormat,
        vcodec |-> IF asset.Kind = "AudioResource" THEN "none" ELSE "None",
        preference |-> Preference(asset.Target)] >>

\* history: where a format came from (asset, link) and when it was appended
Tagged(fs, a, l, base) ==
    [k \in 1..Len(fs) |-> fs[k] @@ [src |-> <<a, l>>, ord |-> base + k]]

\* the fields the code compares (x not in formats_hls, line 301)
CodeFields(f) ==
    [url |-> f.url, format_id |-> f.format_id, tbr |-> f.tbr, ext |-> f.ext,
     vcodec |-> f.vcodec, preference |-> f.preference]

\* the flag had line 227 dropped its `restricted_to_denmark or`
RestrictedLastWins(old, asset) == asset.RestrictedToDenmark

\* line 227
Restricted(old, asset) == old \/ asset.RestrictedToDenmark

\* formats.extend(...) / formats.append(...), lines 260, 262, 270
Extended(old, new) == old \o new

\* the list had line 302 probed it before lines 300-301 split it
AggregatedProbingAll(fs, keep) ==
    LET kept == check_formats(fs, keep)
    IN  SelectSeq(kept, LAMBDA x : ~IsHlsId(x.format_id))
            \o SelectSeq(kept, LAMBDA x : IsHlsId(x.format_id))

\* the list had line 303 put the HLS formats in front
AggregatedHlsFirst(fs, keep) ==
    LET hls == SelectSeq(fs, LAMBDA x : IsHlsId(x.format_id))
        rest == SelectSeq(fs, LAMBDA x :
                    ~\E i \in 1..Len(hls) : CodeFields(hls[i]) = CodeFields(x))
    IN  hls \o (IF rest = <<>> THEN rest ELSE check_formats(rest, keep))

\* lines 300-303: the HLS formats last, the others probed (keep: the positions
\* the probe lets through) and first
Aggregated(fs, keep) ==
    LET hls == SelectSeq(fs, LAMBDA x : IsHlsId(x.format_id))
        rest == SelectSeq(fs, LAMBDA x :
                    ~\E i \in 1..Len(hls) : CodeFields(hls[i]) = CodeFields(x))
    IN  (IF rest = <<>> THEN rest ELSE check_formats(rest, keep)) \o hls

NonHls(fs) == SelectSeq(fs, LAMBDA x : ~IsHlsId(x.format_id))

\* the table had it no entry for Danish
LANGSEmpty(lang) == lang

\* lines 280-293
LANGS(lang) == IF lang = "Danish" THEN "da" ELSE lang

\* the collection had line 290 assigned a fresh list for every reference
RECURSIVE CollectSubtitlesReplacing(_, _)
CollectSubtitlesReplacing(subs, items) ==
    IF items = <<>> THEN subs
    ELSE LET s == Head(items)
             sub_uri == IF s.isdict THEN url_or_none(s.Uri) ELSE NoneStr
             lang == LANGS(IF s.Language = "None" THEN "da" ELSE s.Language)
             ext == IF mimetype2ext(s.MimeType) = "None" THEN "vtt"
                    ELSE mimetype2ext(s.MimeType)
             entry == [url |-> sub_uri, ext |-> ext]
         IN  IF ~s.isdict \/ ~Truthy(sub_uri)
             THEN CollectSubtitlesReplacing(subs, Tail(items))
             ELSE CollectSubtitlesReplacing(
                      IF lang \in DOMAIN subs
                      THEN [subs EXCEPT ![lang] = <<entry>>]
                      ELSE subs @@ (lang :> <<entry>>),
                      Tail(items))

RECURSIVE CollectSubtitles(_, _)
CollectSubtitles(subs, items) ==
    IF items = <<>> THEN subs
    ELSE LET s == Head(items)
             sub_uri == IF s.isdict THEN url_or_none(s.Uri) ELSE NoneStr
             lang == LANGS(IF s.Language = "None" THEN "da" ELSE s.Language)
             ext == IF mimetype2ext(s.MimeType) = "None" THEN "vtt"
                    ELSE mimetype2ext(s.MimeType)
             entry == [url |-> sub_uri, ext |-> ext]
         IN  IF ~s.isdict \/ ~Truthy(sub_uri) THEN CollectSubtitles(subs, Tail(items))
             ELSE CollectSubtitles(
                      IF lang \in DOMAIN subs
                      THEN [subs EXCEPT ![lang] = Append(@, entry)]
                      ELSE subs @@ (lang :> <<entry>>),
                      Tail(items))

\* ResolveUri of every link of AssetTable, computed once
ResolvedUri ==
    [a \in 1..Len(AssetTable) |->
        [l \in 1..Len(AssetTable[a].Links.items) |->
            ResolveUri(AssetTable[a].Links.items[l])]]

\* whether decrypt_uri returns for the EncryptedUri of each link of AssetTable
DecryptedOk ==
    [a \in 1..Len(AssetTable) |->
        [l \in 1..Len(AssetTable[a].Links.items) |->
            LET link == AssetTable[a].Links.items[l]
            IN  IF link.isdict /\ Truthy(link.EncryptedUri)
                THEN decrypt_uri(link.EncryptedUri).ok ELSE TRUE]]

\* what each link of AssetTable gives as its URI before url_or_none (lines
\* 230-236): the plain Uri, else the decrypted EncryptedUri, else None
UriText ==
    [a \in 1..Len(AssetTable) |->
        [l \in 1..Len(AssetTable[a].Links.items) |->
            LET link == AssetTable[a].Links.items[l]
            IN  IF ~link.isdict THEN NoneStr
                ELSE IF Truthy(link.Uri) THEN link.Uri
                ELSE IF Truthy(link.EncryptedUri) /\ decrypt_uri(link.EncryptedUri).ok
                THEN decrypt_uri(link.EncryptedUri).val
                ELSE NoneStr]]

\* the longest Links list of AssetTable
MaxLinksPerAsset ==
    CHOOSE n \in 0..Len(AssetTable) + 8 :
        /\ \A a \in 1..Len(AssetTable) : Len(AssetTable[a].Links.items) <= n
        /\ \E a \in 1..Len(AssetTable) : Len(AssetTable[a].Links.items) = n

Cur == Obj(assets[ai])

CurLink == Cur.Links.items[li]

\* after a link: the next link, or line 278 when the links are exhausted.
\* The history keeps the link, what its manifest download came to ("none" when
\* it has no manifest) and how many formats the link was given
AfterLink(fetch, n) ==
    /\ li' = li + 1
    /\ pc' = IF li + 1 > Len(Cur.Links.items) THEN "subs" ELSE "link"
    /\ visited' = Append(visited, [at |-> <<ai, li>>, fetch |-> fetch, n |-> n])
    /\ UNCHANGED <<assets, ai, thumbnail, duration, restricted_to_denmark,
                   subtitles, outcome, dispatched, token, decrypted, liveVars, tf1Vars>>

\* an exception nothing catches ends the resolution
Raise ==
    /\ pc' = "done"
    /\ outcome' = "UncaughtError"

RaiseHere ==
    /\ Raise
    /\ UNCHANGED <<assets, ai, li, thumbnail, duration, restricted_to_denmark,
                   formats, subtitles, warnings, visited, dispatched, token, decrypted, liveVars, tf1Vars>>

NoSubtitles == <<>>

\* no channel is being resolved
LiveIdle ==
    /\ channel_data = <<>>
    /\ forbidden = FALSE
    /\ sk = 1
    /\ tried = <<>>

\* _call_api has not answered
NoVideoData == [isnone |-> TRUE]

\* no TF1 page is being resolved
TF1Idle ==
    /\ webpage = "None"
    /\ program_id = NoneStr
    /\ video_data = NoVideoData
    /\ calls = <<>>

Init ==
    /\ \E d \in DataSet : assets = BuildAssets(d)
    /\ ai = 1
    /\ li = 1
    /\ pc = "asset"
    /\ thumbnail = NoneStr
    /\ duration = <<>>
    /\ restricted_to_denmark = FALSE
    /\ formats = <<>>
    /\ subtitles = NoSubtitles
    /\ warnings = <<>>
    /\ outcome = "running"
    /\ visited = <<>>
    /\ dispatched = <<>>
    /\ token = NoToken
    /\ decrypted = NotDecrypted
    /\ LiveIdle
    /\ TF1Idle

\* lines 222-224
ImageAsset ==
    /\ pc = "asset" /\ ai <= Len(assets)
    /\ Cur.Kind = "Image"
    /\ thumbnail' = url_or_none(Cur.Uri)
    /\ pc' = "subs"
    /\ UNCHANGED <<assets, ai, li, duration, restricted_to_denmark, formats,
                   subtitles, warnings, outcome, visited, dispatched, token, decrypted, liveVars, tf1Vars>>

\* lines 225-229; iterating "Links": null raises TypeError
MediaAsset ==
    /\ pc = "asset" /\ ai <= Len(assets)
    /\ Cur.Kind \in MediaKinds
    /\ duration' = float_or_none(Cur.DurationInMilliseconds, 1000)
    /\ restricted_to_denmark' = Restricted(restricted_to_denmark, Cur)
    /\ li' = 1
    /\ IF Cur.Links.tag = "null"
       THEN Raise
       ELSE /\ pc' = IF Cur.Links.items = <<>> THEN "subs" ELSE "link"
            /\ outcome' = outcome
    /\ UNCHANGED <<assets, ai, thumbnail, formats, subtitles, warnings, visited,
                   dispatched, token, decrypted, liveVars, tf1Vars>>

\* neither branch of lines 223-225
OtherAsset ==
    /\ pc = "asset" /\ ai <= Len(assets)
    /\ Cur.Kind \notin MediaKinds \cup {"Image"}
    /\ pc' = "subs"
    /\ UNCHANGED <<assets, ai, li, thumbnail, duration, restricted_to_denmark,
                   formats, subtitles, warnings, outcome, visited, dispatched,
                   token, decrypted, liveVars, tf1Vars>>

\* line 230 on a link that is no object: AttributeError
LinkError(r) ==
    /\ r.status = "error"
    /\ RaiseHere

\* the skip had lines 233-234 reported the link that has no URI
LinkSkippedWarned(r) ==
    /\ r.status = "skip"
    /\ warnings' = Append(warnings, [msg |-> "No Uri", src |-> <<ai, li>>])
    /\ UNCHANGED formats
    /\ AfterLink("none", 0)

\* the `continue` of lines 234 and 243
LinkSkipped(r) ==
    /\ r.status = "skip"
    /\ UNCHANGED <<formats, warnings>>
    /\ AfterLink("none", 0)

\* lines 237-240
LinkDecryptFailed(r) ==
    /\ r.status = "warn"
    /\ warnings' = Append(warnings, [msg |-> "Unable to decrypt EncryptedUri", src |-> <<ai, li>>])
    /\ UNCHANGED formats
    /\ AfterLink("none", 0)

\* a manifest link: the formats the call returned are appended
ManifestLink(c, m, msg) ==
    IF c.raised THEN RaiseHere
    ELSE /\ formats' = Extended(formats, Tagged(c.formats, ai, li, Len(formats)))
         /\ warnings' = IF m.ok THEN warnings
                        ELSE Append(warnings, [msg |-> msg, src |-> <<ai, li>>])
         /\ AfterLink(IF m.ok THEN "ok" ELSE "failed", m.n)

\* lines 253-260
LinkHDS(r) ==
    /\ r.status = "ok"
    /\ CurLink.Target = "HDS"
    /\ \E m \in ManifestResponses :
          /\ Len(formats) + m.n <= MaxFormats
          /\ ManifestLink(HdsFormats(Cur, CurLink, r.uri, m), m,
                          "Unable to download f4m manifest")

\* lines 261-265
LinkHLS(r) ==
    /\ r.status = "ok"
    /\ CurLink.Target = "HLS"
    /\ \E m \in ManifestResponses :
          /\ Len(formats) + m.n <= MaxFormats
          /\ ManifestLink(HlsFormats(Cur, CurLink, r.uri, m), m,
                          "Unable to download m3u8 information")

\* the else branch had line 266 tested for a DASH link first and handed it to
\* a manifest parser
LinkDirectDelegating(r) ==
    /\ r.status = "ok"
    /\ CurLink.Target \notin {"HDS", "HLS"}
    /\ IF CurLink.Target = "DASH"
       THEN \E m \in ManifestResponses :
               /\ Len(formats) + m.n <= MaxFormats
               /\ ManifestLink(HlsFormats(Cur, CurLink, r.uri, m), m,
                               "Unable to download MPD manifest")
       ELSE /\ formats' = Extended(formats,
                   Tagged(DirectFormats(Cur, CurLink, r.uri), ai, li, Len(formats)))
            /\ UNCHANGED warnings
            /\ AfterLink("none", 1)

\* lines 266-277
LinkDirect(r) ==
    /\ r.status = "ok"
    /\ CurLink.Target \notin {"HDS", "HLS"}
    /\ formats' = Extended(formats,
           Tagged(DirectFormats(Cur, CurLink, r.uri), ai, li, Len(formats)))
    /\ UNCHANGED warnings
    /\ AfterLink("none", 1)

\* one turn of the loop of line 229
LinkStep ==
    /\ pc = "link"
    /\ LET r == ResolvedUri[assets[ai]][li]
       IN  \/ LinkError(r)
           \/ LinkSkipped(r)
           \/ LinkDecryptFailed(r)
           \/ LinkHDS(r)
           \/ LinkHLS(r)
           \/ LinkDirect(r)

\* lines 278-293, and on to the next asset
Subtitles ==
    /\ pc = "subs"
    /\ subtitles' = IF Cur.SubtitlesList.islist
                    THEN CollectSubtitles(subtitles, Cur.SubtitlesList.items)
                    ELSE subtitles
    /\ ai' = ai + 1
    /\ pc' = "asset"
    /\ UNCHANGED <<assets, li, thumbnail, duration, restricted_to_denmark, formats,
                   warnings, outcome, visited, dispatched, token, decrypted, liveVars, tf1Vars>>

\* lines 295-298: raise_geo_restricted
GeoRestricted ==
    /\ pc = "asset" /\ ai > Len(assets)
    /\ formats = <<>> /\ restricted_to_denmark
    /\ dispatched' = formats
    /\ outcome' = "GeoRestricted"
    /\ pc' = "done"
    /\ UNCHANGED <<assets, ai, li, thumbnail, duration, restricted_to_denmark,
                   formats, subtitles, warnings, visited, token, decrypted, liveVars, tf1Vars>>

\* lines 295-304 when line 295 does not raise: the partition, the probe of
\* the formats that are not HLS, the sort
Finish ==
    /\ pc = "asset" /\ ai > Len(assets)
    /\ ~(formats = <<>> /\ restricted_to_denmark)
    /\ dispatched' = formats
    /\ \E keep \in SUBSET (1..Len(NonHls(formats))) :
          /\ formats' = sort_formats(Aggregated(formats, keep))
          /\ outcome' = IF Aggregated(formats, keep) = <<>> THEN "NoFormats" ELSE "ok"
    /\ pc' = "done"
    /\ UNCHANGED <<assets, ai, li, thumbnail, duration, restricted_to_denmark,
                   subtitles, warnings, visited, token, decrypted, liveVars, tf1Vars>>

Next ==
    \/ ImageAsset
    \/ MediaAsset
    \/ OtherAsset
    \/ LinkStep
    \/ Subtitles
    \/ GeoRestricted
    \/ Finish

Spec == Init /\ [][Next]_vars

----------------------------------------------------------------------------
(* The same resolution on programcards made of other entries of AssetTable. *)

\* programcards whose assets are among E, with up to n secondary assets
DataOver(E, n) ==
    [PrimaryAsset : E \cup {0},
     SecondaryAssets : {[islist |-> FALSE, items |-> <<>>]}
         \cup {[islist |-> TRUE, items |-> s] : s \in SeqsUpTo(E, n)}]

InitOver(D) ==
    /\ \E d \in D : assets = BuildAssets(d)
    /\ ai = 1
    /\ li = 1
    /\ pc = "asset"
    /\ thumbnail = NoneStr
    /\ duration = <<>>
    /\ restricted_to_denmark = FALSE
    /\ formats = <<>>
    /\ subtitles = NoSubtitles
    /\ warnings = <<>>
    /\ outcome = "running"
    /\ visited = <<>>
    /\ dispatched = <<>>
    /\ token = NoToken
    /\ decrypted = NotDecrypted
    /\ LiveIdle
    /\ TF1Idle

\* assets with HDS, HLS and Direct links, plain and encrypted, of both media
\* kinds and of every kind of target; an Image asset and one of another kind
FormatEntries == {2, 3, 6, 7, 11, 12, 14, 15}

InitFormats == InitOver(DataOver(FormatEntries, MaxSecondary))

SpecFormats == InitFormats /\ [][Next]_vars

\* assets of the three kinds with subtitle references, and without
SubtitleEntries == {1, 3, 6, 8, 13, 14}

InitSubtitles == InitOver(DataOver(SubtitleEntries, MaxSecondary))

SpecSubtitles == InitSubtitles /\ [][Next]_vars

\* assets whose links have no URI, an empty one, an invalid one, and links of
\* every transport name: HDS, HLS, Download, DASH, an unknown one, none at all
LinkEntries == {3, 7, 11, 12, 14, 17, 18}

InitLinks == InitOver(DataOver(LinkEntries, MaxSecondary))

SpecLinks == InitLinks /\ [][Next]_vars

----------------------------------------------------------------------------
(* Programcards with several Image assets: the same resolution, on lists   *)
(* of up to MaxSecondary + 2 assets drawn from a few entries of AssetTable *)
(* (a media asset with links, one without, three Image assets, one of      *)
(* another kind).                                                          *)

ThumbnailEntries == {1, 4, 7, 8, 14, 16}

ThumbnailDataSet ==
    [PrimaryAsset : ThumbnailEntries,
     SecondaryAssets :
         {[islist |-> TRUE, items |-> s] : s \in SeqsUpTo(ThumbnailEntries, MaxSecondary + 1)}]

InitThumbnail ==
    /\ \E d \in ThumbnailDataSet : assets = BuildAssets(d)
    /\ ai = 1
    /\ li = 1
    /\ pc = "asset"
    /\ thumbnail = NoneStr
    /\ duration = <<>>
    /\ restricted_to_denmark = FALSE
    /\ formats = <<>>
    /\ subtitles = NoSubtitles
    /\ warnings = <<>>
    /\ outcome = "running"
    /\ visited = <<>>
    /\ dispatched = <<>>
    /\ token = NoToken
    /\ decrypted = NotDecrypted
    /\ LiveIdle
    /\ TF1Idle

SpecThumbnail == InitThumbnail /\ [][Next]_vars

----------------------------------------------------------------------------
(* decrypt_uri on its own: one call on a token of TokenSet.                *)

InitDecrypt ==
    /\ token \in TokenSet
    /\ decrypted = NotDecrypted
    /\ assets = <<>>
    /\ ai = 1
    /\ li = 1
    /\ pc = "idle"
    /\ thumbnail = NoneStr
    /\ duration = <<>>
    /\ restricted_to_denmark = FALSE
    /\ formats = <<>>
    /\ subtitles = NoSubtitles
    /\ warnings = <<>>
    /\ outcome = "running"
    /\ visited = <<>>
    /\ dispatched = <<>>
    /\ LiveIdle
    /\ TF1Idle

\* uri = decrypt_uri(encrypted_uri), line 236
Decrypt ==
    /\ ~decrypted.done
    /\ decrypted' = [done |-> TRUE, ok |-> decrypt_uri(token.text).ok,
                     val |-> decrypt_uri(token.text).val]
    /\ UNCHANGED <<token, extractVars, liveVars, tf1Vars>>

NextDecrypt == Decrypt

SpecDecrypt == InitDecrypt /\ [][NextDecrypt]_vars

----------------------------------------------------------------------------
(* DRTVLiveIE._real_extract, lines 347-403.                                *)

\* how many entries StreamingServers holds at most
MaxServers == 2

PathX == <<"x">>

PathY == <<"y">>

\* an entry of StreamingServers; Qualities is a list of qualities, a quality
\* the list of the 'Stream' values of its Streams (None: no 'Stream')
StreamingServer(server, link_type, qualities) ==
    [Server |-> server, LinkType |-> link_type, Qualities |-> qualities]

\* the JSON objects an entry of StreamingServers can be; an entry of
\* channel_data is a reference to one of them
ServerTable ==
    << StreamingServer(UrlHls, "HLS", << <<PathX>>, <<NoneStr, PathY>> >>),
       StreamingServer(UrlMpd, "DASH", << <<PathX>> >>),
       StreamingServer(NoneStr, "HLS", << <<PathX>> >>),
       StreamingServer(UrlHds, "HDS", << <<PathX>> >>),
       StreamingServer(UrlMpd, "DASH_B", << <<>>, <<PathY>> >>) >>

\* lines 356-363: the turns of the innermost loop, in order, as <<position of
\* the server, stream path>>; a server without 'Server' has none (line 358)
Turns(cd) ==
    Flatten([i \in 1..Len(cd) |->
        IF Truthy(ServerTable[cd[i]].Server)
        THEN LET streams == Flatten(ServerTable[cd[i]].Qualities)
             IN  [j \in 1..Len(streams) |-> [server |-> i, path |-> streams[j]]]
        ELSE <<>>])

CurTurn == Turns(channel_data)[sk]

CurServer == ServerTable[channel_data[CurTurn.server]]

\* lines 366-367: update_url_query('%s/%s' % (server, stream_path), {'b': ''})
StreamUrl(server, stream_path) == server \o <<"/">> \o stream_path \o <<"?", "b", "=">>

\* e.cause of an ExtractorError: None, an HTTPError with its code, or an error
\* that has no code (URLError)
NoCause == [isnone |-> TRUE, code |-> <<>>]

HTTPError(code) == [isnone |-> FALSE, code |-> <<code>>]

URLError == [isnone |-> FALSE, code |-> <<>>]

\* what _extract_m3u8_formats / _extract_mpd_formats come to with fatal left
\* at its default: the formats of the manifest (there may be none), or an
\* ExtractorError with its cause
LiveResponses ==
    {[ok |-> TRUE, n |-> k, cause |-> NoCause] : k \in 0..MaxManifest}
        \cup {[ok |-> FALSE, n |-> 0, cause |-> c] :
                 c \in {NoCause, HTTPError(403), HTTPError(404), URLError}}

\* the formats of a manifest, with ids "<link_type>-<k>"
LiveFormats(stream_url, link_type, r, turn) ==
    [k \in 1..r.n |->
        [url |-> stream_url \o <<ToString(k)>>,
         format_id |-> <<link_type, ToString(k)>>,
         src |-> turn]]

\* the handler had line 384 taken every failed download for a 403
IsForbiddenAnyFailure(cause) == TRUE

\* line 384: e.cause and getattr(e.cause, 'code', None) == 403
IsForbidden(cause) == ~cause.isnone /\ cause.code = <<403>>

\* line 390
LiveGeoTest == forbidden /\ Len(formats) = 0

\* the next turn of the loops.  The history keeps what the turn came to:
\* "skipped", "none" (no parser for the link type), "ok", or "error" with
\* the cause of the ExtractorError
AfterStream(result, cause) ==
    /\ sk' = sk + 1
    /\ tried' = Append(tried, [at |-> sk, result |-> result, cause |-> cause])
    /\ UNCHANGED <<channel_data, pc, outcome>>

InitLive ==
    /\ channel_data \in SeqsUpTo(1..Len(ServerTable), MaxServers)
    /\ forbidden = FALSE
    /\ sk = 1
    /\ tried = <<>>
    /\ formats = <<>>
    /\ warnings = <<>>
    /\ outcome = "running"
    /\ pc = "stream"
    /\ assets = <<>>
    /\ ai = 1
    /\ li = 1
    /\ thumbnail = NoneStr
    /\ duration = <<>>
    /\ restricted_to_denmark = FALSE
    /\ subtitles = NoSubtitles
    /\ visited = <<>>
    /\ dispatched = <<>>
    /\ token = NoToken
    /\ decrypted = NotDecrypted
    /\ TF1Idle

\* lines 364-365: a stream without 'Stream'
StreamSkipped ==
    /\ pc = "stream" /\ sk <= Len(Turns(channel_data))
    /\ ~Truthy(CurTurn.path)
    /\ AfterStream("skipped", NoCause)
    /\ UNCHANGED <<formats, forbidden, warnings>>
    /\ UNCHANGED <<drtvOnlyVars, tf1Vars>>

\* lines 366-388 for link_type 'HLS', 'DASH' and 'DASH_B': the manifest is
\* fetched; an ExtractorError is caught
StreamFetch ==
    /\ pc = "stream" /\ sk <= Len(Turns(channel_data))
    /\ Truthy(CurTurn.path)
    /\ CurServer.LinkType \in {"HLS", "DASH", "DASH_B"}
    /\ \E r \in LiveResponses :
          /\ Len(formats) + r.n <= MaxFormats
          /\ IF r.ok
             THEN /\ formats' = formats \o LiveFormats(
                         StreamUrl(CurServer.Server, CurTurn.path),
                         CurServer.LinkType, r, sk)
                  /\ UNCHANGED <<forbidden, warnings>>
                  /\ AfterStream("ok", NoCause)
             ELSE IF IsForbidden(r.cause)
             THEN /\ forbidden' = TRUE
                  /\ UNCHANGED <<formats, warnings>>
                  /\ AfterStream("error", r.cause)
             ELSE /\ warnings' = Append(warnings,
                         [msg |-> "Unable to download " \o CurServer.LinkType, src |-> sk])
                  /\ UNCHANGED <<formats, forbidden>>
                  /\ AfterStream("error", r.cause)
    /\ UNCHANGED <<drtvOnlyVars, tf1Vars>>

\* lines 366-388 for any other link_type: neither branch of the try block
StreamNoParser ==
    /\ pc = "stream" /\ sk <= Len(Turns(channel_data))
    /\ Truthy(CurTurn.path)
    /\ CurServer.LinkType \notin {"HLS", "DASH", "DASH_B"}
    /\ AfterStream("none", NoCause)
    /\ UNCHANGED <<formats, forbidden, warnings>>
    /\ UNCHANGED <<drtvOnlyVars, tf1Vars>>

\* lines 390-393: raise_geo_restricted
LiveGeoRestricted ==
    /\ pc = "stream" /\ sk > Len(Turns(channel_data))
    /\ LiveGeoTest
    /\ outcome' = "GeoRestricted"
    /\ pc' = "done"
    /\ UNCHANGED <<channel_data, forbidden, sk, tried, formats, warnings>>
    /\ UNCHANGED <<drtvOnlyVars, tf1Vars>>

\* lines 390-403 when line 390 does not raise
LiveFinish ==
    /\ pc = "stream" /\ sk > Len(Turns(channel_data))
    /\ ~LiveGeoTest
    /\ formats' = sort_formats(formats)
    /\ outcome' = IF formats = <<>> THEN "NoFormats" ELSE "ok"
    /\ pc' = "done"
    /\ UNCHANGED <<channel_data, forbidden, sk, tried, warnings>>
    /\ UNCHANGED <<drtvOnlyVars, tf1Vars>>

NextLive ==
    \/ StreamSkipped
    \/ StreamFetch
    \/ StreamNoParser
    \/ LiveGeoRestricted
    \/ LiveFinish

SpecLive == InitLive /\ [][NextLive]_vars

----------------------------------------------------------------------------
(* tf1.py: TF1IE._real_extract (lines 221-257) with _old_real_extract      *)
(* (lines 213-219), and WatIE._extract_video_info (lines 62-107).          *)

\* a program id as the two regular expressions capture it
Uuid == <<"u", "u", "i", "d">>

\* a wat.tv stream id
WatId == <<"1", "2", "3">>

\* what the page holds.  jsonld: _search_json_ld found something; embed: the
\* embedUrl expression matches; apollo: "absent" (no __APOLLO_STATE__),
\* "unparsable" (it is no JSON), "noref" (no videoBySlug reference for the
\* slug), "other" (a reference that is not "Video:<uuid>"), "video"
PageSet ==
    [jsonld : BOOLEAN, embed : BOOLEAN,
     apollo : {"absent", "unparsable", "noref", "other", "video"}]

\* lines 225-229: `info and self._search_regex(...)`: the empty dict when
\* info is empty, else the captured id or None
EmbedProgramId(page) ==
    IF ~page.jsonld THEN <<>>
    ELSE IF page.embed THEN Uuid ELSE NoneStr

\* lines 231-237: try_get(apollo_state, lambda x: x['ROOT_QUERY'][...]['__ref'], compat_str)
ApolloRef(page) ==
    CASE page.apollo = "video" -> <<"Video:">> \o Uuid
      [] page.apollo = "other" -> <<"Program:">> \o Uuid
      [] OTHER -> NoneStr

\* the expression of line 238 on a str: the id after "Video:", or None
VideoRefId(ref) ==
    IF Len(ref) >= 1 /\ ref[1] = "Video:" THEN Tail(ref) ELSE NoneStr

\* the parameters of _old_real_extract after self (line 213)
OldRealExtractParams == <<"program_slug", "slug">>

\* the arguments of the call of line 242
LastResortArgs == <<"url", "program_slug", "slug">>

\* a call binds when there are as many positional arguments as parameters
\* (no defaults, no *args); otherwise Python raises TypeError
Binds(args, params) == Len(args) = Len(params)

\* what _get_gql_data returns (fatal=False): the videoBySlug object, or {}
GqlSet == {[streamId |-> WatId], [streamId |-> NoneStr]}

Media(error_desc, error_code, has_title) ==
    [error_desc |-> error_desc, error_code |-> error_code, has_title |-> has_title]

Delivery(format, url, drm) == [isnone |-> FALSE, format |-> format, url |-> url, drm |-> drm]

\* video_data has no 'delivery' (or null): `video_data.get('delivery') or {}`
NoDelivery == [isnone |-> TRUE, format |-> "None", url |-> NoneStr, drm |-> FALSE]

ErrorDesc == <<"e">>

\* the answers of _call_api
VideoDataSet ==
    [media : {Media(NoneStr, "None", TRUE), Media(NoneStr, "None", FALSE),
              Media(<<>>, "GEOBLOCKED", TRUE),
              Media(ErrorDesc, "GEOBLOCKED", TRUE), Media(ErrorDesc, "OTHER", TRUE),
              Media(ErrorDesc, "None", FALSE)},
     delivery : {NoDelivery}
         \cup {Delivery(f, u, d) : f \in {"hls", "dash", "mpd", "smooth"},
                                   u \in {UrlHls, NoneStr}, d \in BOOLEAN}]

\* what http://www.wat.tv/get/webhtml/<id> answers: nothing (the download
\* failed, fatal=False), or a dict of manifest URLs, as its items in order
ManifestUrlsSet ==
    { [ok |-> FALSE, items |-> <<>>],
      [ok |-> TRUE, items |-> <<>>],
      [ok |-> TRUE, items |-> <<[f |-> "hls", url |-> UrlHls]>>],
      [ok |-> TRUE, items |-> <<[f |-> "mpd", url |-> <<>>], [f |-> "dash", url |-> UrlMpd]>>],
      [ok |-> TRUE, items |-> <<[f |-> "smooth", url |-> UrlFile]>>] }

\* lines 77-80: the item names a manifest the extractor fetches
IsFetched(item) == Truthy(item.url) /\ item.f \in {"dash", "mpd", "hls"}

\* lines 76-87, one item: the formats of its manifest (fatal=False)
ItemFormats(item, r) ==
    IF ~IsFetched(item) THEN <<>>
    ELSE ManifestFormats(item.url, "mp4", "None",
                         <<IF item.f = "hls" THEN "hls" ELSE "dash">>, r, FALSE).formats

\* extract_formats(manifest_urls), lines 76-87; rs: what each download came to
ExtractFormats(items, rs) == Flatten([k \in 1..Len(items) |-> ItemFormats(items[k], rs[k])])

\* the warnings of the downloads that failed
RECURSIVE ItemWarnings(_, _)
ItemWarnings(items, rs) ==
    IF items = <<>> THEN <<>>
    ELSE (IF IsFetched(Head(items)) /\ ~Head(rs).ok
          THEN <<[msg |-> "Failed to download manifest", src |-> Head(items).f]>>
          ELSE <<>>) \o ItemWarnings(Tail(items), Tail(rs))

\* how many formats the downloads rs yield for items
Yield(items, rs) == Len(ExtractFormats(items, rs))

\* lines 89-90: the one-item dict {delivery.get('format'): delivery.get('url')}
DeliveryItems(delivery) == <<[f |-> delivery.format, url |-> delivery.url]>>

\* the test of line 92 had it not been nested in `if not formats`
DrmTestAlone == video_data.delivery.drm

\* lines 91-92: `if not formats:` and `if delivery.get('drm'):`
DrmTest == formats = <<>> /\ video_data.delivery.drm

Called(fn, n) == calls' = Append(calls, [fn |-> fn, n |-> n])

\* the resolution went through _old_real_extract, which has the GraphQL data
\* already (line 214)
Legacy == \E k \in 1..Len(calls) : calls[k].fn = "_old_real_extract"

TF1Raise(o) ==
    /\ outcome' = o
    /\ pc' = "done"

InitTF1 ==
    /\ webpage \in PageSet
    /\ program_id = NoneStr
    /\ video_data = NoVideoData
    /\ calls = <<>>
    /\ formats = <<>>
    /\ warnings = <<>>
    /\ outcome = "running"
    /\ pc = "jsonld"
    /\ assets = <<>>
    /\ ai = 1
    /\ li = 1
    /\ thumbnail = NoneStr
    /\ duration = <<>>
    /\ restricted_to_denmark = FALSE
    /\ subtitles = NoSubtitles
    /\ visited = <<>>
    /\ dispatched = <<>>
    /\ token = NoToken
    /\ decrypted = NotDecrypted
    /\ LiveIdle

\* lines 225-229
JsonLd ==
    /\ pc = "jsonld"
    /\ program_id' = EmbedProgramId(webpage)
    /\ pc' = IF Truthy(EmbedProgramId(webpage)) THEN "api" ELSE "apollo"
    /\ warnings' = IF webpage.jsonld /\ ~webpage.embed
                   THEN Append(warnings, [msg |-> "unable to extract program id", src |-> 227])
                   ELSE warnings
    /\ UNCHANGED <<webpage, video_data, calls, formats, outcome>>
    /\ UNCHANGED <<drtvOnlyVars, liveVars>>

\* lines 230-238.  _search_regex is handed None when try_get found no str;
\* what it does then is common.py's business: it raises TypeError as
\* re.search does, or reports no match
Apollo ==
    /\ pc = "apollo"
    /\ LET ref == ApolloRef(webpage)
       IN  IF ref = NoneStr
           THEN \E raises \in BOOLEAN :
                   IF raises
                   THEN /\ TF1Raise("UncaughtError")
                        /\ UNCHANGED <<program_id, warnings>>
                   ELSE /\ program_id' = NoneStr
                        /\ pc' = "last_resort"
                        /\ warnings' = Append(warnings,
                               [msg |-> "unable to extract program id", src |-> 238])
                        /\ UNCHANGED outcome
           ELSE /\ program_id' = VideoRefId(ref)
                /\ pc' = IF Truthy(VideoRefId(ref)) THEN "api" ELSE "last_resort"
                /\ warnings' = IF Truthy(VideoRefId(ref)) THEN warnings
                               ELSE Append(warnings,
                                      [msg |-> "unable to extract program id", src |-> 238])
                /\ UNCHANGED outcome
    /\ UNCHANGED <<webpage, video_data, calls, formats>>
    /\ UNCHANGED <<drtvOnlyVars, liveVars>>

\* lines 240-242: return self._old_real_extract(url, program_slug, slug), and
\* when the call binds, lines 214-215: the GraphQL data and its streamId
\* (KeyError without one), then WatIE._real_extract on "wat:<streamId>"
LastResort ==
    /\ pc = "last_resort"
    /\ IF ~Binds(LastResortArgs, OldRealExtractParams)
       THEN /\ TF1Raise("UncaughtError")
            /\ Called("_old_real_extract", 0)
            /\ UNCHANGED program_id
       ELSE \E video \in GqlSet :
               /\ calls' = calls \o <<[fn |-> "_old_real_extract", n |-> 0],
                                      [fn |-> "_get_gql_data", n |-> 0]>>
               /\ IF video.streamId = NoneStr
                  THEN TF1Raise("UncaughtError") /\ UNCHANGED program_id
                  ELSE /\ program_id' = video.streamId
                       /\ pc' = "api"
                       /\ UNCHANGED outcome
    /\ UNCHANGED <<webpage, video_data, formats, warnings>>
    /\ UNCHANGED <<drtvOnlyVars, liveVars>>

\* line 249 (line 114 on the legacy path): _call_api, a download that is fatal
CallApi ==
    /\ pc = "api"
    /\ \/ /\ video_data' \in VideoDataSet
          /\ pc' = "media"
          /\ UNCHANGED outcome
       \/ /\ TF1Raise("DownloadError")
          /\ UNCHANGED video_data
    /\ Called("_call_api", 0)
    /\ UNCHANGED <<webpage, program_id, formats, warnings>>
    /\ UNCHANGED <<drtvOnlyVars, liveVars>>

\* lines 64-70: the media record carries an error description
MediaError ==
    /\ pc = "media"
    /\ Truthy(video_data.media.error_desc)
    /\ TF1Raise(IF video_data.media.error_code = "GEOBLOCKED"
                THEN "GeoRestricted" ELSE "ExpectedError")
    /\ UNCHANGED <<webpage, program_id, video_data, calls, formats, warnings>>
    /\ UNCHANGED <<drtvOnlyVars, liveVars>>

\* lines 67 and 72: no error description; title = video_info['title'],
\* KeyError without one
MediaTitle ==
    /\ pc = "media"
    /\ ~Truthy(video_data.media.error_desc)
    /\ IF video_data.media.has_title
       THEN pc' = "delivery" /\ UNCHANGED outcome
       ELSE TF1Raise("UncaughtError")
    /\ UNCHANGED <<webpage, program_id, video_data, calls, formats, warnings>>
    /\ UNCHANGED <<drtvOnlyVars, liveVars>>

\* lines 89-90
DeliveryFormats ==
    /\ pc = "delivery"
    /\ LET items == DeliveryItems(video_data.delivery)
       IN  \E rs \in [1..Len(items) -> ManifestResponses] :
              /\ rs[1].ok \/ IsFetched(items[1])
              /\ formats' = formats \o ExtractFormats(items, rs)
              /\ Called("delivery", Yield(items, rs))
              /\ warnings' = warnings \o ItemWarnings(items, rs)
    /\ pc' = "drm"
    /\ UNCHANGED <<webpage, program_id, video_data, outcome>>
    /\ UNCHANGED <<drtvOnlyVars, liveVars>>

\* lines 91-93: raise ExtractorError('This video is DRM protected.')
DrmProtected ==
    /\ pc = "drm"
    /\ DrmTest
    /\ TF1Raise("DRM")
    /\ UNCHANGED <<webpage, program_id, video_data, calls, formats, warnings>>
    /\ UNCHANGED <<drtvOnlyVars, liveVars>>

\* lines 91-97 when there is no format and line 93 does not raise
SecondaryManifests ==
    /\ pc = "drm"
    /\ formats = <<>> /\ ~DrmTest
    /\ \E m \in ManifestUrlsSet :
          \E rs \in [1..Len(m.items) -> ManifestResponses] :
              /\ \A k \in 1..Len(m.items) : rs[k].ok \/ IsFetched(m.items[k])
              /\ formats' = formats \o ExtractFormats(m.items, rs)
              /\ Called("webhtml", Yield(m.items, rs))
              /\ warnings' = warnings
                     \o (IF m.ok THEN <<>>
                         ELSE <<[msg |-> "Failed to download JSON", src |-> "webhtml"]>>)
                     \o ItemWarnings(m.items, rs)
    /\ pc' = "sort"
    /\ UNCHANGED <<webpage, program_id, video_data, outcome>>
    /\ UNCHANGED <<drtvOnlyVars, liveVars>>

\* line 91 when the delivery manifest gave formats: on to line 99
DeliveryServed ==
    /\ pc = "drm"
    /\ formats # <<>>
    /\ pc' = "sort"
    /\ UNCHANGED <<webpage, program_id, video_data, calls, formats, warnings, outcome>>
    /\ UNCHANGED <<drtvOnlyVars, liveVars>>

\* lines 251-257 (116-118 and 218-219 on the legacy path): _sort_formats, which
\* raises on an empty list, the GraphQL data, the merged result
SortAndMerge ==
    /\ pc = "sort"
    /\ formats' = sort_formats(formats)
    /\ IF formats = <<>>
       THEN TF1Raise("NoFormats") /\ UNCHANGED calls
       ELSE /\ TF1Raise("ok")
            /\ IF Legacy THEN UNCHANGED calls ELSE Called("_get_gql_data", 0)
    /\ UNCHANGED <<webpage, program_id, video_data, warnings>>
    /\ UNCHANGED <<drtvOnlyVars, liveVars>>

NextTF1 ==
    \/ JsonLd
    \/ Apollo
    \/ LastResort
    \/ CallApi
    \/ MediaError
    \/ MediaTitle
    \/ DeliveryFormats
    \/ DrmProtected
    \/ SecondaryManifests
    \/ DeliveryServed
    \/ SortAndMerge

SpecTF1 == InitTF1 /\ [][NextTF1]_vars

----------------------------------------------------------------------------
(* What the properties speak of.                                          *)

Done == pc = "done"

\* the resolution ran to line 295 and decided there
Decided == Done /\ outcome # "UncaughtError"

\* positions of the assets whose links and restriction flag are read
MediaPositions == {a \in 1..Len(assets) : Obj(assets[a]).Kind \in MediaKinds}

AnyRestrictedAsset == \E a \in MediaPositions : Obj(assets[a]).RestrictedToDenmark

LinksOf(a) == Obj(assets[a]).Links.items

\* every link of the programcard, as <<asset position, link position>>
AllLinks ==
    {p \in MediaPositions \X (1..MaxLinksPerAsset) : p[2] <= Len(LinksOf(p[1]))}

LinkAt(p) == LinksOf(p[1])[p[2]]

\* declaration order of links
Before(p, q) == p[1] < q[1] \/ (p[1] = q[1] /\ p[2] < q[2])

VisitedLinks == {visited[k].at : k \in 1..Len(visited)}

\* the formats dispatched so far: `formats` until line 295, then what it held there
Dispatched == IF Decided THEN dispatched ELSE formats

\* the link has no plain Uri and decrypt_uri raises on its EncryptedUri
DecryptFails(p) ==
    /\ LinkAt(p).isdict
    /\ ~Truthy(LinkAt(p).Uri)
    /\ Truthy(LinkAt(p).EncryptedUri)
    /\ ~DecryptedOk[assets[p[1]]][p[2]]

\* the resolution stopped on an exception at a malformed entry: "Links": null,
\* or a link that is no object
StoppedAtMalformed ==
    /\ outcome = "UncaughtError"
    /\ \/ Cur.Links.tag = "null"
       \/ (li <= Len(Cur.Links.items) /\ ~CurLink.isdict)

\* every link declared after p was given its turn
LaterLinksVisited(p) == \A q \in AllLinks : Before(p, q) => q \in VisitedLinks

IsHls(f) == IsHlsId(f.format_id)

----------------------------------------------------------------------------
(* C1 *)

----------------------------------------------------------------------------
(* C2 *)

\* C2: a resolution that reaches its decision (line 295) signals
\* geo-restriction if and only if no format was dispatched and at least one
\* asset whose restriction flag is read (a VideoResource or AudioResource)
\* declared RestrictedToDenmark.
C2_GeoIffEmptyAndRestricted ==
    Decided =>
        ((outcome = "GeoRestricted") <=> (dispatched = <<>> /\ AnyRestrictedAsset))

\* geo-restriction signalled although the last asset read is not restricted
C2_Witness ==
    /\ Done /\ outcome = "GeoRestricted"
    /\ Len(assets) >= 2
    /\ Len(assets) \in MediaPositions
    /\ ~Obj(assets[Len(assets)]).RestrictedToDenmark

----------------------------------------------------------------------------
(* C3 *)

\* C3: whenever the final list is empty, be it because the probe dropped every
\* dispatched format, and an asset was region-restricted, the outcome is
\* GeoRestricted.
C3_GeoDecidedOnFinalList ==
    (Decided /\ formats = <<>> /\ AnyRestrictedAsset) => outcome = "GeoRestricted"

----------------------------------------------------------------------------
(* C4 *)

\* C4: a link without plain Uri whose EncryptedUri does not decrypt is warned
\* about, gives no format, and does not end the resolution: every link
\* declared after it gets its turn, unless the resolution stops on an exception
\* at a malformed entry; no exception ever stops it at such a link.
C4_DecryptFailureSkipsLink ==
    /\ \A p \in AllLinks :
          (DecryptFails(p) /\ p \in VisitedLinks) =>
              /\ \E k \in 1..Len(warnings) :
                    warnings[k] = [msg |-> "Unable to decrypt EncryptedUri", src |-> p]
              /\ \A i \in 1..Len(Dispatched) : Dispatched[i].src # p
              /\ \A i \in 1..Len(formats) : formats[i].src # p
              /\ Done => (LaterLinksVisited(p) \/ StoppedAtMalformed)
    /\ \A p \in AllLinks :
          (DecryptFails(p) /\ Done) => (p \in VisitedLinks \/ StoppedAtMalformed)

\* a returned list with a format of a link declared after one that did not decrypt
C4_Witness ==
    /\ Done /\ outcome = "ok"
    /\ \E p \in AllLinks :
          /\ DecryptFails(p)
          /\ \E i \in 1..Len(formats) : Before(p, formats[i].src)

----------------------------------------------------------------------------
(* C9 *)

\* C9: a link whose manifest download failed is given no format and is
\* reported as a warning; every link declared after it gets its turn (unless
\* the resolution stops on an exception at a malformed entry), and every other
\* link has in the dispatched list exactly the formats it was given.
C9_ManifestFailureIsolated ==
    /\ \A k \in 1..Len(visited) :
          visited[k].fetch = "failed" =>
              /\ \A i \in 1..Len(Dispatched) : Dispatched[i].src # visited[k].at
              /\ \E w \in 1..Len(warnings) :
                    /\ warnings[w].src = visited[k].at
                    /\ warnings[w].msg \in {"Unable to download f4m manifest",
                                            "Unable to download m3u8 information"}
              /\ Done => (LaterLinksVisited(visited[k].at) \/ StoppedAtMalformed)
    /\ \A k \in 1..Len(visited) :
          visited[k].fetch # "failed" =>
              Cardinality({i \in 1..Len(Dispatched) : Dispatched[i].src = visited[k].at})
                  = visited[k].n
    /\ outcome = "UncaughtError" => StoppedAtMalformed

\* a returned list holding the formats of both neighbours of a link whose
\* manifest download failed
C9_Witness ==
    /\ Done /\ outcome = "ok"
    /\ \E k \in 1..Len(visited) :
          /\ visited[k].fetch = "failed"
          /\ \E i, j \in 1..Len(formats) :
                /\ Before(formats[i].src, visited[k].at)
                /\ Before(visited[k].at, formats[j].src)

----------------------------------------------------------------------------
(* C10 *)

\* C10: a malformed link or asset is skipped and every other link is still
\* processed; the resolution fails outright only when the final list is empty
\* and no restriction was detected.
C10_MalformedEntrySkipped ==
    Done =>
        /\ \A p \in AllLinks : LinkAt(p).isdict => p \in VisitedLinks
        /\ outcome \notin {"ok", "GeoRestricted"} =>
               (formats = <<>> /\ ~AnyRestrictedAsset)

----------------------------------------------------------------------------
(* C5, C6: decrypt_uri *)

\* C5: decrypt_uri raises on every malformed token: one cut inside the length
\* field, one with a character that is no hex digit, one whose declared
\* padding count exceeds the decrypted length.
C5_MalformedTokenRaises ==
    (decrypted.done /\ token.kind \in {"truncated", "nonhex", "overpad"}) =>
        ~decrypted.ok

IsPrefix(s, t) == Len(s) <= Len(t) /\ SubSeq(t, 1, Len(s)) = s

\* C6: for a token framed as tag, 8-hex-digit length, ciphertext hex, IV hex,
\* whose ciphertext is the PKCS#7-padded plaintext encrypted in CBC under the
\* key derived from the IV text, decrypt_uri returns the plaintext cut at its
\* first '?': no '?' in the result, and the whole plaintext when it has none.
C6_RoundTrip ==
    (decrypted.done /\ token.kind = "wellformed") =>
        /\ decrypted.ok
        /\ \A i \in 1..Len(decrypted.val) : decrypted.val[i] # "?"
        /\ IsPrefix(decrypted.val, token.plain)
        /\ \/ decrypted.val = token.plain
           \/ token.plain[Len(decrypted.val) + 1] = "?"

\* a plaintext longer than one block, cut at a '?' past the first block's start
C6_Witness ==
    /\ decrypted.done /\ token.kind = "wellformed"
    /\ Len(token.plain) > BLOCK_SIZE_BYTES
    /\ decrypted.ok
    /\ decrypted.val # <<>>
    /\ decrypted.val # token.plain

----------------------------------------------------------------------------
(* C11 *)

\* the text a link gives as its URI: plain, or decrypted, or None
UriTextAt(p) == UriText[assets[p[1]]][p[2]]

FormatsOf(fs, p) == {i \in 1..Len(fs) : fs[i].src = p}

\* C11: every format, in the list being built, in the list line 295 sees and in
\* the list returned, has a non-empty url; and a link whose plain or decrypted
\* URI is empty or no valid URL has no format in any of them.
C11_FormatUrlNonEmpty ==
    /\ \A i \in 1..Len(formats) : Truthy(formats[i].url)
    /\ \A i \in 1..Len(Dispatched) : Truthy(Dispatched[i].url)
    /\ \A p \in AllLinks :
          (LinkAt(p).isdict /\ ~Truthy(url_or_none(UriTextAt(p)))) =>
              /\ FormatsOf(formats, p) = {}
              /\ FormatsOf(Dispatched, p) = {}

\* a returned list with a format of a decrypted URI, after a link whose
\* EncryptedUri decrypted to the empty string was visited
C11_Witness ==
    /\ Done /\ outcome = "ok"
    /\ \E p \in VisitedLinks :
          /\ Truthy(LinkAt(p).EncryptedUri)
          /\ DecryptedOk[assets[p[1]]][p[2]]
          /\ UriTextAt(p) = <<>>
    /\ \E i \in 1..Len(formats) :
          /\ ~Truthy(LinkAt(formats[i].src).Uri)
          /\ Truthy(formats[i].url)

----------------------------------------------------------------------------
(* C12 *)

AssetOf(f) == Obj(assets[f.src[1]])

LinkOf(f) == LinkAt(f.src)

\* the link went to the else branch of line 266
IsDirect(link) == link.Target \notin {"HDS", "HLS"}

\* the format of a Direct link of an alternate-audience asset: preference -1,
\* id <transport or ''>-<asset target>[-<bitrate>]
AlternateDirectFormat(f) ==
    (IsDirect(LinkOf(f))
        /\ AssetOf(f).Target \in {"SpokenSubtitles", "SignLanguage", "VisuallyInterpreted"}) =>
        /\ f.preference = "-1"
        /\ f.format_id =
              <<IF LinkOf(f).Target = "None" THEN "" ELSE LinkOf(f).Target>>
                  \o <<AssetOf(f).Target>>
                  \o (IF LinkOf(f).Bitrate \in {<<>>, <<0>>} THEN <<>>
                      ELSE <<ToString(LinkOf(f).Bitrate[1])>>)

\* C12: the format of a Direct link of an asset whose target is
\* SpokenSubtitles, SignLanguage or VisuallyInterpreted has preference -1 and
\* the id "<transport>-<asset target>", followed by "-<bitrate>" when the link
\* has a (non-zero) bitrate.
C12_AlternateDirectFormatId ==
    /\ \A i \in 1..Len(formats) : AlternateDirectFormat(formats[i])
    /\ \A i \in 1..Len(Dispatched) : AlternateDirectFormat(Dispatched[i])

\* a returned list with "Download-SignLanguage-750" and, from a link without
\* transport name and bitrate, "-SignLanguage"
C12_Witness ==
    /\ Done /\ outcome = "ok"
    /\ \E i, j \in 1..Len(formats) :
          /\ formats[i].format_id = <<"Download", "SignLanguage", "750">>
          /\ formats[i].preference = "-1"
          /\ IsDirect(LinkOf(formats[i]))
          /\ formats[j].format_id = <<"", "SignLanguage">>
          /\ IsDirect(LinkOf(formats[j]))

----------------------------------------------------------------------------
(* C13 *)

CodecRule(f) ==
    /\ (LinkOf(f).Target = "HDS" /\ AssetOf(f).Kind = "AudioResource") =>
            f.vcodec = "none"
    /\ LinkOf(f).Target = "HLS" => f.vcodec = DelegateCodec

\* C13: a format of an HDS link of an AudioResource asset has the video codec
\* "none"; a format of an HLS link, of an asset of either kind, has the codec
\* the delegate returned.
C13_AudioHdsCodecForced ==
    /\ \A i \in 1..Len(formats) : CodecRule(formats[i])
    /\ \A i \in 1..Len(Dispatched) : CodecRule(Dispatched[i])

\* a returned list with an HDS format and an HLS format of one AudioResource
\* asset, the first with codec "none", the second with the delegate's
C13_Witness ==
    /\ Done /\ outcome = "ok"
    /\ \E i, j \in 1..Len(formats) :
          /\ formats[i].src[1] = formats[j].src[1]
          /\ AssetOf(formats[i]).Kind = "AudioResource"
          /\ LinkOf(formats[i]).Target = "HDS" /\ formats[i].vcodec = "none"
          /\ LinkOf(formats[j]).Target = "HLS" /\ formats[j].vcodec = DelegateCodec

----------------------------------------------------------------------------
(* C14 *)

\* -1 for an alternate-audience target, +1 for Default, otherwise unset
HintOfTarget(t) ==
    CASE t \in {"SpokenSubtitles", "SignLanguage", "VisuallyInterpreted"} -> "-1"
      [] t = "Default" -> "1"
      [] OTHER -> "None"

\* C14: every format carries the preference given by the target of the asset
\* it was dispatched from, whatever the link and its transport: -1 for
\* SpokenSubtitles, SignLanguage and VisuallyInterpreted, 1 for Default, unset
\* otherwise.
C14_PreferenceOfAssetTarget ==
    /\ \A i \in 1..Len(formats) :
          formats[i].preference = HintOfTarget(AssetOf(formats[i]).Target)
    /\ \A i \in 1..Len(Dispatched) :
          Dispatched[i].preference = HintOfTarget(AssetOf(Dispatched[i]).Target)

\* a returned list with an HDS and an HLS format of one Default asset, both
\* with preference 1, and a Direct format of an asset without target, unset
C14_Witness ==
    /\ Done /\ outcome = "ok"
    /\ \E i, j, k \in 1..Len(formats) :
          /\ formats[i].src[1] = formats[j].src[1]
          /\ LinkOf(formats[i]).Target = "HDS" /\ LinkOf(formats[j]).Target = "HLS"
          /\ formats[i].preference = "1" /\ formats[j].preference = "1"
          /\ IsDirect(LinkOf(formats[k])) /\ formats[k].preference = "None"
          /\ AssetOf(formats[k]).Target = "None"

----------------------------------------------------------------------------
(* C15 *)

\* a Direct link whose plain or decrypted URI is a valid URL
ValidDirectLink(p) ==
    /\ LinkAt(p).isdict
    /\ IsDirect(LinkAt(p))
    /\ Truthy(url_or_none(UriTextAt(p)))

\* C15: a visited Direct link with a valid URI has exactly one format in the
\* dispatched list: its url is the URI, its bitrate and extension are the
\* link's Bitrate and FileFormat, and its video codec is "none" exactly when
\* the asset is an AudioResource.
C15_DirectLinkOneFormat ==
    \A p \in AllLinks :
        (ValidDirectLink(p) /\ p \in VisitedLinks) =>
            /\ Cardinality(FormatsOf(Dispatched, p)) = 1
            /\ \A i \in FormatsOf(Dispatched, p) :
                  /\ Dispatched[i].url = UriTextAt(p)
                  /\ Dispatched[i].tbr = LinkAt(p).Bitrate
                  /\ Dispatched[i].ext = LinkAt(p).FileFormat
                  /\ (Dispatched[i].vcodec = "none")
                        <=> (Obj(assets[p[1]]).Kind = "AudioResource")

\* a returned list with the Direct format of an AudioResource asset, codec
\* "none", and the Direct format of a VideoResource asset, codec unset
C15_Witness ==
    /\ Done /\ outcome = "ok"
    /\ \E i, j \in 1..Len(formats) :
          /\ IsDirect(LinkOf(formats[i])) /\ IsDirect(LinkOf(formats[j]))
          /\ AssetOf(formats[i]).Kind = "AudioResource" /\ formats[i].vcodec = "none"
          /\ AssetOf(formats[j]).Kind = "VideoResource" /\ formats[j].vcodec = "None"
          /\ formats[i].tbr = <<750>> /\ formats[i].ext = "mp4"

----------------------------------------------------------------------------
(* C16 *)

\* the durations, in seconds, the media assets of the list declare
DeclaredDurations ==
    {float_or_none(Obj(assets[a]).DurationInMilliseconds, 1000)[1] :
        a \in {m \in MediaPositions : Obj(assets[m]).DurationInMilliseconds # <<>>}}

MaxDeclaredDuration ==
    IF DeclaredDurations = {} THEN <<>>
    ELSE <<CHOOSE d \in DeclaredDurations : \A e \in DeclaredDurations : e <= d>>

\* C16: the duration a resolution returns is the largest duration a
\* VideoResource or AudioResource asset of the list declares (unset when none
\* declares one).
C16_DurationIsMaximum ==
    (Done /\ outcome = "ok") => duration = MaxDeclaredDuration

----------------------------------------------------------------------------
(* C17 *)

\* positions of the Image assets whose Uri is a valid URL
ImagePositions ==
    {a \in 1..Len(assets) :
        Obj(assets[a]).Kind = "Image" /\ Truthy(url_or_none(Obj(assets[a]).Uri))}

FirstImageUri ==
    IF ImagePositions = {} THEN NoneStr
    ELSE Obj(assets[CHOOSE a \in ImagePositions : \A b \in ImagePositions : a <= b]).Uri

----------------------------------------------------------------------------
(* C18 *)

\* the resolution went past line 295 to the probe and the sort
Probed == Done /\ outcome \in {"ok", "NoFormats"}

----------------------------------------------------------------------------
(* C19, C20: subtitles *)

\* the subtitle references of the assets whose subtitles have been collected
\* (the first ai - 1), whatever their kind, in declaration order
ReferencesSeen ==
    Flatten([a \in 1..(ai - 1) |->
                IF Obj(assets[a]).SubtitlesList.islist
                THEN Obj(assets[a]).SubtitlesList.items ELSE <<>>])

\* those with a resolvable URL
IsResolvable(s) == s.isdict /\ Truthy(url_or_none(s.Uri))

ResolvableSeen == SelectSeq(ReferencesSeen, IsResolvable)

\* the language code of a reference: the table (Danish -> da), an unknown
\* name unchanged, "da" when no language is declared
CodeOf(s) ==
    CASE s.Language = "None" -> "da"
      [] s.Language = "Danish" -> "da"
      [] OTHER -> s.Language

\* its extension: the one mapped from the MIME type, else vtt
ExtOf(s) == IF mimetype2ext(s.MimeType) = "None" THEN "vtt" ELSE mimetype2ext(s.MimeType)

EntryOf(s) == [url |-> s.Uri, ext |-> ExtOf(s)]

\* C19: every reference with a resolvable URL seen so far is filed under its
\* language code (da for Danish and for no language, an unknown name
\* unchanged) with the extension mapped from its MIME type, or vtt; and every
\* entry filed under a code is that of such a reference.
C19_SubtitleLanguageAndExt ==
    /\ \A i \in 1..Len(ResolvableSeen) :
          /\ CodeOf(ResolvableSeen[i]) \in DOMAIN subtitles
          /\ \E k \in 1..Len(subtitles[CodeOf(ResolvableSeen[i])]) :
                subtitles[CodeOf(ResolvableSeen[i])][k] = EntryOf(ResolvableSeen[i])
    /\ \A c \in DOMAIN subtitles :
          \A k \in 1..Len(subtitles[c]) :
              \E i \in 1..Len(ResolvableSeen) :
                  /\ CodeOf(ResolvableSeen[i]) = c
                  /\ EntryOf(ResolvableSeen[i]) = subtitles[c][k]

\* a returned result with a ttml entry under da from a reference without
\* language, a vtt entry under da from a Danish reference without MIME type,
\* and an entry under the unknown name German
C19_Witness ==
    /\ Done /\ outcome = "ok"
    /\ DOMAIN subtitles = {"da", "German"}
    /\ \E k \in 1..Len(subtitles["da"]) : subtitles["da"][k].ext = "ttml"
    /\ \E i \in 1..Len(ResolvableSeen) :
          ResolvableSeen[i].Language = "Danish" /\ ResolvableSeen[i].MimeType = "None"
    /\ \E i \in 1..Len(ResolvableSeen) : ResolvableSeen[i].Language = "None"

\* the entries of the resolvable references seen so far that have code c, in
\* declaration order
EntriesOfCode(c) ==
    LET of_c == SelectSeq(ResolvableSeen, LAMBDA s : CodeOf(s) = c)
    IN  [k \in 1..Len(of_c) |-> EntryOf(of_c[k])]

\* C20: at every point of the resolution, the sequence filed under a language
\* code is exactly the entries of the resolvable references of that code in
\* the assets gone through so far, of any kind, in declaration order; a
\* reference without a resolvable URL adds nothing.
C20_SubtitlesAccumulateInOrder ==
    /\ DOMAIN subtitles = {CodeOf(ResolvableSeen[i]) : i \in 1..Len(ResolvableSeen)}
    /\ \A c \in DOMAIN subtitles : subtitles[c] = EntriesOfCode(c)

\* a returned result with two different entries under da that come from two
\* assets, one of which also holds references without a resolvable URL
C20_Witness ==
    /\ Done /\ outcome = "ok"
    /\ "da" \in DOMAIN subtitles
    /\ Len(subtitles["da"]) = 2
    /\ subtitles["da"][1] # subtitles["da"][2]
    /\ Len(assets) = 2
    /\ \A a \in 1..2 : \E i \in 1..Len(Obj(assets[a]).SubtitlesList.items) :
          IsResolvable(Obj(assets[a]).SubtitlesList.items[i])
    /\ Len(ReferencesSeen) > Len(ResolvableSeen)

----------------------------------------------------------------------------
(* C21 *)

\* the link is an object whose Uri and EncryptedUri are both absent or empty
NeitherUri(link) ==
    /\ link.isdict
    /\ ~Truthy(link.Uri)
    /\ ~Truthy(link.EncryptedUri)

\* C21: the turn of the loop over a link that has neither a Uri nor an
\* EncryptedUri appends no format and reports no warning, leaves the
\* restriction flag, the duration, the subtitles and the thumbnail as they
\* were, does not end the resolution, and hands over to the next link of the
\* asset (or, after the last link, to the asset's subtitles).
C21_NoUriLinkSkippedSilently ==
    [][(pc = "link" /\ NeitherUri(CurLink)) =>
          /\ formats' = formats
          /\ warnings' = warnings
          /\ restricted_to_denmark' = restricted_to_denmark
          /\ duration' = duration
          /\ subtitles' = subtitles
          /\ thumbnail' = thumbnail
          /\ outcome' = outcome
          /\ ai' = ai
          /\ li' = li + 1
          /\ pc' = IF li < Len(Cur.Links.items) THEN "link" ELSE "subs"]_vars

\* a returned list with the format of a link that follows, in the same asset,
\* a link without Uri and EncryptedUri; nothing was reported
C21_Witness ==
    /\ Done /\ outcome = "ok"
    /\ warnings = <<>>
    /\ \E p \in VisitedLinks :
          /\ NeitherUri(LinkAt(p))
          /\ \E i \in 1..Len(formats) : formats[i].src = <<p[1], p[2] + 1>>

----------------------------------------------------------------------------
(* C22 *)

\* what the history says of the turn given to link p
VisitOf(p) == {visited[k] : k \in {j \in 1..Len(visited) : visited[j].at = p}}

\* C22: a visited link with a URI whose Target is neither "HDS" nor "HLS" (a
\* DASH manifest, an unknown name, no name) was not handed to a manifest
\* parser, and has exactly one dispatched format, whose url is the URI of the
\* link (plain, or decrypted).
C22_OtherTransportIsDirect ==
    \A p \in AllLinks :
        (p \in VisitedLinks /\ LinkAt(p).isdict
            /\ LinkAt(p).Target \notin {"HDS", "HLS"}
            /\ ResolvedUri[assets[p[1]]][p[2]].status = "ok") =>
            /\ \A v \in VisitOf(p) : v.fetch = "none" /\ v.n = 1
            /\ Cardinality(FormatsOf(Dispatched, p)) = 1
            /\ \A i \in FormatsOf(Dispatched, p) :
                  Dispatched[i].url = ResolvedUri[assets[p[1]]][p[2]].uri

\* a returned list with the formats of a DASH link, of a link with an unknown
\* Target and of a link without Target, each with the URI of its link
C22_Witness ==
    /\ Done /\ outcome = "ok"
    /\ \E i, j, k \in 1..Len(formats) :
          /\ LinkOf(formats[i]).Target = "DASH" /\ formats[i].url = UrlMpd
          /\ LinkOf(formats[j]).Target = "Streaming"
          /\ formats[j].url = decrypt_uri(LinkOf(formats[j]).EncryptedUri).val
          /\ LinkOf(formats[k]).Target = "None" /\ formats[k].url = UrlFile

----------------------------------------------------------------------------
(* C23 *)

\* the fetch of turn k failed with HTTP 403
Failed403(k) == tried[k].result = "error" /\ tried[k].cause = HTTPError(403)

\* the fetch of turn k failed with another cause, or with none
FailedOtherwise(k) == tried[k].result = "error" /\ tried[k].cause # HTTPError(403)

SomeFetch403 == \E k \in 1..Len(tried) : Failed403(k)

WarnedAt(k) == \E w \in 1..Len(warnings) : warnings[w].src = k

\* C23: a resolution of a live channel ends in GeoRestricted exactly when
\* some stream fetch failed with HTTP 403 and no format was collected, and it
\* decides so only after every stream of every server had its turn; a fetch
\* that failed for another cause left a warning, one that failed with 403
\* left none, and neither kept the streams after it from being tried.
C23_LiveGeoIff403AndNoFormat ==
    /\ \A k \in 1..Len(tried) : tried[k].at = k
    /\ outcome = "running" => (pc = "stream" /\ Len(tried) = sk - 1)
    /\ \A k \in 1..Len(tried) :
          /\ FailedOtherwise(k) => WarnedAt(k)
          /\ Failed403(k) => ~WarnedAt(k)
    /\ Done =>
          /\ Len(tried) = Len(Turns(channel_data))
          /\ (outcome = "GeoRestricted") <=> (SomeFetch403 /\ formats = <<>>)

\* a channel found geo-restricted after a fetch that failed with 403 was
\* followed by one that failed for another cause
C23_Witness ==
    /\ Done /\ outcome = "GeoRestricted"
    /\ \E i, j \in 1..Len(tried) :
          /\ i < j
          /\ Failed403(i)
          /\ FailedOtherwise(j)

----------------------------------------------------------------------------
(* C24 *)

\* neither the embedUrl of the JSON-LD nor the Apollo state yields a program id
NoProgramId(page) ==
    /\ ~Truthy(EmbedProgramId(page))
    /\ ~Truthy(VideoRefId(ApolloRef(page)))

CalledFn(fn) == \E k \in 1..Len(calls) : calls[k].fn = fn

\* C24: when the page yields no program id and the resolution has made the
\* last-resort call of _old_real_extract, the legacy path runs: the GraphQL
\* data is fetched for the stream id, and the resolution does not end in an
\* uncaught exception at the call.
C24_FallbackRunsLegacyPath ==
    (NoProgramId(webpage) /\ CalledFn("_old_real_extract")) =>
        /\ CalledFn("_get_gql_data")
        /\ ~(Done /\ outcome = "UncaughtError" /\ ~CalledFn("_call_api"))

----------------------------------------------------------------------------
(* C25 *)

\* the history entry of the delivery manifest, if line 90 was reached
DeliveryCalls == {k \in 1..Len(calls) : calls[k].fn = "delivery"}

\* line 90 was reached and the delivery manifest gave no format
DeliveryGaveNothing == \E k \in DeliveryCalls : calls[k].n = 0

\* C25: once _extract_video_info has seen a media record with an error
\* description, the resolution has ended, in GeoRestricted when the error
\* code is GEOBLOCKED and in an expected error otherwise, with no manifest
\* fetched and no format; the DRM error is raised only after the delivery
\* manifest gave no format, with delivery.drm set; and the wat.tv manifest
\* list is fetched only after the delivery manifest gave no format, with
\* delivery.drm not set.
C25_ErrorDrmAndSecondaryOrder ==
    /\ (video_data # NoVideoData /\ pc # "media" /\ Truthy(video_data.media.error_desc)) =>
          /\ Done
          /\ outcome = IF video_data.media.error_code = "GEOBLOCKED"
                       THEN "GeoRestricted" ELSE "ExpectedError"
          /\ formats = <<>>
          /\ ~CalledFn("delivery") /\ ~CalledFn("webhtml")
    /\ outcome \in {"GeoRestricted", "ExpectedError"} =>
          (video_data # NoVideoData /\ Truthy(video_data.media.error_desc))
    /\ outcome = "DRM" =>
          /\ DeliveryGaveNothing
          /\ formats = <<>>
          /\ video_data.delivery.drm
    /\ CalledFn("webhtml") =>
          /\ DeliveryGaveNothing
          /\ ~video_data.delivery.drm
          /\ \A k \in 1..Len(calls) : calls[k].fn = "webhtml" =>
                \E j \in DeliveryCalls : j < k

\* the DRM error after a delivery manifest that was fetched and failed
C25_Witness ==
    /\ Done /\ outcome = "DRM"
    /\ IsFetched(DeliveryItems(video_data.delivery)[1])
    /\ DeliveryGaveNothing
    /\ warnings # <<>>

====
